---- MODULE Spec2Model ----
(***************************************************************************)
(* Model of exitos/rootfs/llm/LLMEngine.py: the LLMEngine conversation     *)
(* store, tool registry and the tool-execution loop of get_response.       *)
(*                                                                         *)
(* A get_response call is a frame (one per worker thread) that advances    *)
(* statement by statement; the backend (requests.post to Ollama) and the   *)
(* registered tool callables are the environment.                          *)
(***************************************************************************)
EXTENDS Integers, Sequences, FiniteSets, TLC

VARIABLES
    conversations,  \* self.conversations: session id -> list of messages
    tools,          \* self.tools: tool name -> [definition, func]
    logger,         \* module-level logger: FALSE is None
    frame,          \* per worker thread: the locals of its get_response call
    turns,          \* number of get_response calls started so far
    posts,          \* number of backend calls made or due so far
    cleared         \* what clear_conversation returned, when the last step was one

vars == <<conversations, tools, logger, frame, turns, posts, cleared>>

(***************************************************************************)
(* Bounds of the model.                                                    *)
(***************************************************************************)
MaxTurns == 2
MaxPosts == 5

(***************************************************************************)
(* Program constants.                                                      *)
(***************************************************************************)
MaxIterations == 5

Threads == {1, 2}
Sessions == {"s1", "s2"}
UserTexts == {"hello"}

\* A key that a dict does not hold.
Missing == "<missing>"

(***************************************************************************)
(* Messages: dicts with role, content and (assistant only) tool_calls.     *)
(* tool_calls is <<>> when the key is absent or the list is empty.         *)
(***************************************************************************)
Msg(role, content, tool_calls) ==
    [role |-> role, content |-> content, tool_calls |-> tool_calls]

system_prompt == "Ets un expert en gestio energetica de la plataforma eXiT."

SystemMsg == Msg("system", system_prompt, <<>>)
UserMsg(user_input) == Msg("user", user_input, <<>>)
ToolMsg(result_str) == Msg("tool", result_str, <<>>)
\* data.get("message", {}) when data holds no "message"
EmptyDict == Msg(Missing, Missing, <<>>)

\* Python's None, as a JSON null decodes
None == "<None>"

\* dict.get(key, default)
DictGet(value, default) == IF value = Missing THEN default ELSE value

(***************************************************************************)
(* Texts returned by get_response.                                         *)
(***************************************************************************)
MsgLimit == "He assolit el limit d'iteracions d'eines sense resposta final."
MsgConnection == "No puc connectar amb Ollama. Verifica que Ollama esta executant-se."
MsgModelNotFound == "Model no trobat. Assegura't que el model esta descarregat a Ollama."
MsgWrongEndpoint == "Error 405: Endpoint incorrecte."
MsgHTTP(status, body) == "Error HTTP " \o status \o ": " \o body
MsgTimeout == "El servidor Ollama esta trigant massa."
MsgRequest == "Ho sento, no puc connectar amb el servidor Ollama."
MsgUnexpected == "Hi ha hagut un error inesperat processant la teva consulta."

(***************************************************************************)
(* Tool result strings.                                                    *)
(***************************************************************************)
ToolResult(function_name) == "result of " \o function_name
ToolErrorText(function_name) == "Error executing tool " \o function_name \o ": boom"
ToolNotFoundText(function_name) == "Error: Tool '" \o function_name \o "' not found."

(***************************************************************************)
(* Exceptions.  An exception value carries its class and, for an           *)
(* HTTPError, the response's status and body.  Bases(cls) is the set of    *)
(* classes an instance of cls is an instance of; the hierarchy is the one  *)
(* of requests.exceptions and of the Python builtins.                      *)
(***************************************************************************)
Exc(cls, status, body) == [cls |-> cls, status |-> status, body |-> body]

Bases(cls) ==
    CASE cls = "ConnectionError" ->
            {"ConnectionError", "RequestException", "Exception"}
      [] cls = "ConnectTimeout" ->
            {"ConnectTimeout", "ConnectionError", "Timeout", "RequestException", "Exception"}
      [] cls = "ReadTimeout" ->
            {"ReadTimeout", "Timeout", "RequestException", "Exception"}
      [] cls = "HTTPError" ->
            {"HTTPError", "RequestException", "Exception"}
      [] cls = "TooManyRedirects" ->
            {"TooManyRedirects", "RequestException", "Exception"}
      [] cls = "JSONDecodeError" ->
            {"JSONDecodeError", "RequestException", "ValueError", "Exception"}
      [] OTHER -> {cls, "Exception"}

\* The clauses with the Timeout clause written first.
ExceptClauses_TimeoutFirst ==
    <<"Timeout", "ConnectionError", "HTTPError", "RequestException", "Exception">>

\* The except clauses of get_response, in the order they are written.
ExceptClauses ==
    <<"ConnectionError", "HTTPError", "Timeout", "RequestException", "Exception">>

\* The index of the first clause that catches e; 0 when none does.
CatchingClause(e) ==
    LET hits == {i \in 1..Len(ExceptClauses) : ExceptClauses[i] \in Bases(e.cls)}
    IN  IF hits = {} THEN 0
        ELSE CHOOSE i \in hits : \A j \in hits : i <= j

\* The text the catching clause returns.
HandlerText(e) ==
    LET clause == ExceptClauses[CatchingClause(e)]
    IN  CASE clause = "ConnectionError" -> MsgConnection
          [] clause = "HTTPError" ->
                IF e.status = "404" THEN MsgModelNotFound
                ELSE IF e.status = "405" THEN MsgWrongEndpoint
                ELSE MsgHTTP(e.status, e.body)
          [] clause = "Timeout" -> MsgTimeout
          [] clause = "RequestException" -> MsgRequest
          [] OTHER -> MsgUnexpected

(***************************************************************************)
(* Frames: the locals of one get_response call.                            *)
(*   pc         where the call stands                                      *)
(*   iter       backend calls made so far in this call (the loop index)    *)
(*   tool_calls the tool calls of the current round not yet dispatched     *)
(*   payload    the "messages" of the request in flight                    *)
(*   ret        the value returned (pc = "done")                           *)
(*   exc, site  the exception that ended the call and where it was raised  *)
(*   replies    the messages of the replies decoded so far in this call    *)
(*   before     the history the user message was appended to               *)
(***************************************************************************)
NoExc == Exc(Missing, Missing, Missing)

IdleFrame ==
    [pc |-> "idle", session_id |-> Missing, user_input |-> Missing, iter |-> 0,
     tool_calls |-> <<>>, payload |-> <<>>, ret |-> Missing,
     exc |-> NoExc, site |-> Missing, replies |-> <<>>, before |-> <<>>]

Init ==
    /\ conversations = <<>>
    /\ tools = <<>>
    /\ logger = FALSE
    /\ frame = [t \in Threads |-> IdleFrame]
    /\ turns = 0
    /\ posts = 0
    /\ cleared = Missing

\* d[k] = v for a dict d (a function whose domain is its set of keys)
DictSet(d, k, v) == [x \in DOMAIN d \cup {k} |-> IF x = k THEN v ELSE d[x]]

\* An append to a list that every session shares.
AppendTo_Shared(session_id, message) ==
    [s \in DOMAIN conversations |-> Append(conversations[s], message)]

\* self.conversations[session_id].append(message)
AppendTo(session_id, message) ==
    [conversations EXCEPT ![session_id] = Append(@, message)]

(***************************************************************************)
(* init_routes(app, external_logger): sets the module-level logger.        *)
(***************************************************************************)
init_routes(external_logger) ==
    /\ logger' = external_logger
    /\ cleared' = Missing
    /\ UNCHANGED <<conversations, tools, frame, turns, posts>>

(***************************************************************************)
(* register_tool(name, func, description, parameters)                      *)
(***************************************************************************)
register_tool(name, func, description) ==
    /\ tools' = DictSet(tools, name, [definition |-> description, func |-> func])
    /\ cleared' = Missing
    /\ UNCHANGED <<conversations, logger, frame, turns, posts>>

(***************************************************************************)
(* clear_conversation(session_id); cleared holds the value it returns.     *)
(***************************************************************************)
\* A clear that empties the list.
ClearedHistory_Empty == <<>>

\* lines 204-206: the list a cleared session holds
ClearedHistory == <<SystemMsg>>

\* A clear that assigns the list without looking the session up.
clear_conversation_Unconditional(session_id) ==
    /\ conversations' = DictSet(conversations, session_id, ClearedHistory)
    /\ cleared' = "True"
    /\ UNCHANGED <<tools, logger, frame, turns, posts>>

clear_conversation(session_id) ==
    /\ IF session_id \in DOMAIN conversations
       THEN /\ conversations' = [conversations EXCEPT ![session_id] = ClearedHistory]
            /\ cleared' = "True"
       ELSE /\ conversations' = conversations
            /\ cleared' = "False"
    /\ UNCHANGED <<tools, logger, frame, turns, posts>>

(***************************************************************************)
(* The environment: what the backend can answer and what a tool call can   *)
(* look like.                                                              *)
(***************************************************************************)
Funcs == {"f_ok", "f_raise"}        \* a callable that returns, one that raises
Registrations ==
    {<<"t1", "f_ok", "d1">>, <<"t1", "f_raise", "d2">>}

\* A tool call entry: shape "ok" is {"function": {"name", "arguments": {..}}},
\* "badargs" has arguments that are no mapping, "nofunction" lacks "function".
ToolCall(name, shape) == [name |-> name, shape |-> shape]
PlainCall == ToolCall("t1", "ok")
\* The tool-requesting replies the backend gives: one call, two calls of
\* different tools, and a list whose entries are malformed.
ToolReplies ==
    {Msg("assistant", "", <<PlainCall>>),
     Msg("assistant", "Let me check", <<PlainCall, ToolCall("t2", "ok")>>),
     Msg("assistant", "", <<ToolCall("t1", "badargs"), ToolCall(Missing, "nofunction")>>)}

\* The replies without tool calls; EmptyDict is a reply with no "message",
\* a content of None a reply whose "content" is null.
FinalReplies ==
    {Msg("assistant", c, <<>>) : c \in {"Use a battery", None}} \cup {EmptyDict}

HTTPStatuses == {"404", "405", "500"}
Bodies == {"oops"}

\* What lines 110-117 can raise: requests.post, raise_for_status, res.json,
\* data.get and message.get.
BackendExceptions ==
    {Exc(c, Missing, Missing) :
        c \in {"ConnectionError", "ConnectTimeout", "ReadTimeout",
               "JSONDecodeError", "ValueError", "AttributeError"}}
        \cup {Exc("HTTPError", st, b) : st \in HTTPStatuses, b \in Bodies}

(***************************************************************************)
(* get_response(user_input, session_id), statement by statement.           *)
(***************************************************************************)
Step(t, f) == frame' = [frame EXCEPT ![t] = f]

\* An exception e raised inside the try block at `site`: the first matching
\* except clause returns its text; with no matching clause it propagates.
Raise(f, e, site) ==
    IF CatchingClause(e) = 0
    THEN [f EXCEPT !.pc = "raised", !.exc = e, !.site = site, !.tool_calls = <<>>]
    ELSE [f EXCEPT !.pc = "done", !.ret = HandlerText(e), !.exc = e,
                   !.site = site, !.tool_calls = <<>>]

\* line 76: the call is entered and the session looked up
get_response_enter(t, user_input, session_id) ==
    /\ frame[t].pc = "idle"
    /\ turns' = turns + 1
    /\ posts' = posts + 1
    /\ Step(t, [IdleFrame EXCEPT
                    !.pc = IF session_id \in DOMAIN conversations THEN "user" ELSE "seed",
                    !.session_id = session_id,
                    !.user_input = user_input])
    /\ cleared' = Missing
    /\ UNCHANGED <<conversations, tools, logger>>

\* lines 77-79: the session is seeded with the system prompt
get_response_seed(t) ==
    /\ frame[t].pc = "seed"
    /\ conversations' = DictSet(conversations, frame[t].session_id, <<SystemMsg>>)
    /\ Step(t, [frame[t] EXCEPT !.pc = "user"])
    /\ cleared' = Missing
    /\ UNCHANGED <<tools, logger, turns, posts>>

\* lines 84-87: the user message is appended
get_response_user(t) ==
    /\ frame[t].pc = "user"
    /\ conversations' = AppendTo(frame[t].session_id, UserMsg(frame[t].user_input))
    /\ Step(t, [frame[t] EXCEPT
                    !.pc = "loop",
                    !.before = conversations[frame[t].session_id]])
    /\ cleared' = Missing
    /\ UNCHANGED <<tools, logger, turns, posts>>

\* line 90: the loop goes on while fewer than 5 iterations were made
LoopContinues(iter) == iter < MaxIterations

\* lines 90-110 and 165: the head of the loop: one more iteration sends the
\* request; the exhausted loop returns the iteration-limit text
get_response_loop(t) ==
    /\ frame[t].pc = "loop"
    /\ Step(t, IF LoopContinues(frame[t].iter)
               THEN [frame[t] EXCEPT
                        !.pc = "wait",
                        !.iter = @ + 1,
                        !.payload = conversations[frame[t].session_id]]
               ELSE [frame[t] EXCEPT !.pc = "done", !.ret = MsgLimit])
    /\ cleared' = Missing
    /\ UNCHANGED <<conversations, tools, logger, turns, posts>>

\* A failed round that leaves an empty assistant message behind.
get_response_fail_Recording(t, e) ==
    /\ frame[t].pc = "wait"
    /\ Step(t, Raise(frame[t], e, "backend"))
    /\ conversations' = AppendTo(frame[t].session_id, Msg("assistant", "", <<>>))
    /\ cleared' = Missing
    /\ UNCHANGED <<tools, logger, turns, posts>>

\* lines 110-117 raise: the backend call fails or its reply cannot be read
get_response_fail(t, e) ==
    /\ frame[t].pc = "wait"
    /\ Step(t, Raise(frame[t], e, "backend"))
    /\ cleared' = Missing
    /\ UNCHANGED <<conversations, tools, logger, turns, posts>>

\* A reply recorded only when it has content.
WithReply_SkipEmpty(history, message) ==
    IF DictGet(message.content, "") = "" THEN history ELSE Append(history, message)

\* line 120: the history once the reply's message is recorded
WithReply(history, message) == Append(history, message)

\* the reply leads to one more backend call of this get_response call
NeedsPost(t, message) ==
    message.tool_calls # <<>> /\ LoopContinues(frame[t].iter)

\* lines 112-129: the reply is decoded; message is data.get("message", {})
get_response_reply(t, message) ==
    LET f == frame[t]
        assistant_content == DictGet(message.content, "")
        tool_calls == message.tool_calls
        more == NeedsPost(t, message)
    IN  /\ f.pc = "wait"
        /\ posts' = IF more THEN posts + 1 ELSE posts
        /\ conversations' =
              [conversations EXCEPT ![f.session_id] = WithReply(@, message)]
        /\ Step(t, IF tool_calls = <<>>
                   THEN IF logger /\ assistant_content = None
                        THEN \* line 125: assistant_content[:100]
                             Raise([f EXCEPT !.replies = Append(@, message)],
                                   Exc("TypeError", Missing, Missing), "reply")
                        ELSE [f EXCEPT !.pc = "done", !.ret = assistant_content,
                                       !.replies = Append(@, message)]
                   ELSE [f EXCEPT !.pc = "tools", !.tool_calls = tool_calls,
                                  !.replies = Append(@, message)])
        /\ cleared' = Missing
        /\ UNCHANGED <<tools, logger, turns>>

\* lines 132-163: the next tool call of the round is dispatched
get_response_tool(t) ==
    LET f == frame[t]
        tool_call == Head(f.tool_calls)
        function_name == tool_call.name
        known == function_name \in DOMAIN tools
        raises == known /\ (tool_call.shape = "badargs" \/ tools[function_name].func = "f_raise")
        result_str ==
            IF ~known THEN ToolNotFoundText(function_name)
            ELSE IF raises THEN ToolErrorText(function_name)
            ELSE ToolResult(function_name)
        rest == Tail(f.tool_calls)
    IN  /\ f.pc = "tools"
        /\ f.tool_calls # <<>>
        /\ IF tool_call.shape = "nofunction"
           THEN \* line 133: tool_call["function"]
                /\ Step(t, Raise(f, Exc("KeyError", Missing, Missing), "tool"))
                /\ UNCHANGED conversations
           ELSE IF (raises \/ ~known) /\ ~logger
           THEN \* lines 146 and 159: logger.error / logger.warning on None
                /\ Step(t, Raise(f, Exc("AttributeError", Missing, Missing), "tool"))
                /\ UNCHANGED conversations
           ELSE /\ conversations' = AppendTo(f.session_id, ToolMsg(result_str))
                /\ Step(t, [f EXCEPT !.tool_calls = rest,
                                     !.pc = IF rest = <<>> THEN "loop" ELSE "tools"])
        /\ cleared' = Missing
        /\ UNCHANGED <<tools, logger, turns, posts>>

\* the call is over: its value went back to the caller
get_response_return(t) ==
    /\ frame[t].pc \in {"done", "raised"}
    /\ Step(t, IdleFrame)
    /\ cleared' = Missing
    /\ UNCHANGED <<conversations, tools, logger, turns, posts>>

(***************************************************************************)
(* Specifications.                                                         *)
(*                                                                         *)
(* Spec: one request at a time (the engine behind a single-threaded        *)
(* server); thread 1 serves every request.                                 *)
(* ConcSpec: a thread per request; the statements of concurrent            *)
(* get_response calls and clear_conversation calls interleave.             *)
(*                                                                         *)
(* In Spec tools are registered and the routes initialised before the      *)
(* first request; ConcSpec starts from the engine of a started             *)
(* application.  A run holds at most MaxTurns (ConcMaxTurns) requests and  *)
(* at most MaxPosts (ConcMaxPosts) backend calls.                          *)
(***************************************************************************)
AllIdle == \A t \in Threads : frame[t].pc = "idle"
Startup == turns = 0

\* a request may start, a reply may ask for another round, within the budget
MayEnter(maxTurns, maxPosts) == turns < maxTurns /\ posts < maxPosts
MayReply(t, message, maxPosts) == NeedsPost(t, message) => posts < maxPosts

Next ==
    \/ \E l \in BOOLEAN : Startup /\ init_routes(l)
    \/ \E r \in Registrations : Startup /\ register_tool(r[1], r[2], r[3])
    \/ \E s \in Sessions : AllIdle /\ clear_conversation(s)
    \/ \E u \in UserTexts, s \in Sessions :
          AllIdle /\ MayEnter(MaxTurns, MaxPosts) /\ get_response_enter(1, u, s)
    \/ get_response_seed(1)
    \/ get_response_user(1)
    \/ get_response_loop(1)
    \/ \E e \in BackendExceptions : get_response_fail(1, e)
    \/ \E m \in ToolReplies \cup FinalReplies :
          MayReply(1, m, MaxPosts) /\ get_response_reply(1, m)
    \/ get_response_tool(1)
    \/ get_response_return(1)

Spec == Init /\ [][Next]_vars

ConcMaxTurns == 2
ConcMaxPosts == 3
ConcReplies ==
    {Msg("assistant", "", <<PlainCall>>), Msg("assistant", "Use a battery", <<>>)}
ConcExceptions == {Exc("ConnectionError", Missing, Missing)}

\* the engine once the application has started: init_routes has set the
\* logger and the tool t1 is registered
ConcInit ==
    /\ conversations = <<>>
    /\ tools = [n \in {"t1"} |-> [definition |-> "d1", func |-> "f_ok"]]
    /\ logger = TRUE
    /\ frame = [t \in Threads |-> IdleFrame]
    /\ turns = 0
    /\ posts = 0
    /\ cleared = Missing

ConcNext ==
    \/ \E s \in Sessions : clear_conversation(s)
    \/ \E t \in Threads, u \in UserTexts, s \in Sessions :
          MayEnter(ConcMaxTurns, ConcMaxPosts) /\ get_response_enter(t, u, s)
    \/ \E t \in Threads : get_response_seed(t)
    \/ \E t \in Threads : get_response_user(t)
    \/ \E t \in Threads : get_response_loop(t)
    \/ \E t \in Threads, e \in ConcExceptions : get_response_fail(t, e)
    \/ \E t \in Threads, m \in ConcReplies :
          MayReply(t, m, ConcMaxPosts) /\ get_response_reply(t, m)
    \/ \E t \in Threads : get_response_tool(t)
    \/ \E t \in Threads : get_response_return(t)

ConcSpec == ConcInit /\ [][ConcNext]_vars

(***************************************************************************)
(* get_visible_history(session_id), as the specification describes it: the *)
(* user and assistant messages whose content is not blank, in order, each  *)
(* as {role, content}.  The source under study holds no code for it.       *)
(***************************************************************************)
VisMaxLen == 3

\* str.strip() on the contents the histories below hold
Strip(text) ==
    CASE text \in {" ", "  "} -> ""
      [] text = " Use a battery " -> "Use a battery"
      [] OTHER -> text

\* A filter that tests the content without stripping it.
VisibleOf_Unstripped(history) ==
    SelectSeq([i \in 1..Len(history) |->
                  [role |-> history[i].role, content |-> history[i].content]],
              LAMBDA m : m.role \in {"user", "assistant"} /\ m.content # "")

RECURSIVE VisibleOf(_)
VisibleOf(history) ==
    IF history = <<>> THEN <<>>
    ELSE LET m == Head(history)
             rest == VisibleOf(Tail(history))
         IN  IF m.role \notin {"user", "assistant"} THEN rest
             ELSE IF Strip(m.content) = "" THEN rest
             ELSE <<[role |-> m.role, content |-> m.content]>> \o rest

get_visible_history(t, session_id) ==
    /\ frame[t].pc = "idle"
    /\ Step(t, [IdleFrame EXCEPT
                    !.pc = "done",
                    !.session_id = session_id,
                    !.ret = IF session_id \in DOMAIN conversations
                            THEN VisibleOf(conversations[session_id])
                            ELSE <<>>])
    /\ cleared' = Missing
    /\ UNCHANGED <<conversations, tools, logger, turns, posts>>

\* The messages a stored history can hold after its system message.
VisMessages ==
    {UserMsg("hello"), UserMsg("  "),
     Msg("assistant", "Use a battery", <<>>), Msg("assistant", " Use a battery ", <<>>),
     Msg("assistant", "", <<PlainCall>>), Msg("assistant", " ", <<>>),
     ToolMsg(ToolResult("t1"))}

VisHistories ==
    {<<SystemMsg>> \o tail :
        tail \in UNION {[1..n -> VisMessages] : n \in 0..VisMaxLen}}

VisInit ==
    /\ conversations \in {DictSet(<<>>, "s1", h) : h \in VisHistories}
    /\ tools = <<>>
    /\ logger = TRUE
    /\ frame = [t \in Threads |-> IdleFrame]
    /\ turns = 0
    /\ posts = 0
    /\ cleared = Missing

VisNext ==
    \/ \E t \in Threads, s \in Sessions : get_visible_history(t, s)
    \/ \E t \in Threads : get_response_return(t)

VisSpec == VisInit /\ [][VisNext]_vars

(***************************************************************************)
(* Vocabulary of the properties.                                           *)
(***************************************************************************)
Last(seq) == seq[Len(seq)]
IsPrefix(a, b) == Len(a) <= Len(b) /\ SubSeq(b, 1, Len(a)) = a
Ended(f) == f.pc \in {"done", "raised"}

\* msg is a tool-result message for the call: a result or an error string
ErrorStrings(name) == {ToolErrorText(name), ToolNotFoundText(name)}
IsResultOf(msg, call) ==
    /\ msg.role = "tool"
    /\ msg.content \in {ToolResult(call.name)} \cup ErrorStrings(call.name)

\* h is, round by round, the reply's message followed by one tool-result
\* message per tool call of the reply, in the order of the calls
RECURSIVE Rounds(_, _)
Rounds(h, replies) ==
    IF replies = <<>> THEN h = <<>>
    ELSE LET m == Head(replies)
             k == Len(m.tool_calls)
         IN  /\ Len(h) >= 1 + k
             /\ h[1] = m
             /\ \A i \in 1..k : IsResultOf(h[1 + i], m.tool_calls[i])
             /\ Rounds(SubSeq(h, k + 2, Len(h)), Tail(replies))

RECURSIVE SumCalls(_)
SumCalls(replies) ==
    IF replies = <<>> THEN 0
    ELSE Len(Head(replies).tool_calls) + SumCalls(Tail(replies))

AllRequestTools(replies) ==
    \A i \in 1..Len(replies) : replies[i].tool_calls # <<>>

\* the history of the call's session is what the call found, the user
\* message, and the rounds of the given replies
TurnHistory(f, replies) ==
    LET h == conversations[f.session_id]
        n == Len(f.before)
    IN  /\ Len(h) = n + 1 + Len(replies) + SumCalls(replies)
        /\ SubSeq(h, 1, n) = f.before
        /\ h[n + 1] = UserMsg(f.user_input)
        /\ Rounds(SubSeq(h, n + 2, Len(h)), replies)

(***************************************************************************)
(* C1: a get_response call makes at most 5 backend calls; when every reply *)
(* carries tool calls it makes exactly 5 and then returns.                 *)
(***************************************************************************)
C1_BackendCalls ==
    \A t \in Threads :
        LET f == frame[t]
        IN  /\ f.iter <= 5
            /\ (Ended(f) /\ Len(f.replies) = f.iter /\ AllRequestTools(f.replies))
                  => (f.pc = "done" /\ f.iter = 5)

(***************************************************************************)
(* C2: after 5 rounds that each return tool calls the call returns the     *)
(* iteration-limit text, and on a fresh session the history is system,     *)
(* user, and 5 groups of an assistant message with its tool results.       *)
(***************************************************************************)
C2_LimitSentinel ==
    \A t \in Threads :
        LET f == frame[t]
        IN  (Ended(f) /\ Len(f.replies) = 5 /\ AllRequestTools(f.replies))
                => /\ f.ret = MsgLimit
                   /\ f.before = <<SystemMsg>> => TurnHistory(f, f.replies)

(***************************************************************************)
(* C3: a call whose round r reply has no tool calls, after r-1 rounds with *)
(* k_1..k_(r-1) tool calls, returns that reply's content, and the history  *)
(* grew by 1 + r + (k_1 + ... + k_(r-1)) messages: the user message, then  *)
(* per round the reply's message and one tool result per call in order.    *)
(***************************************************************************)
\* the message is an assistant message with a text for content
IsAssistantText(m) == m.role = "assistant" /\ m.content \notin {Missing, None}

FinalAnswer(f) ==
    /\ Ended(f)
    /\ f.replies # <<>>
    /\ Last(f.replies).tool_calls = <<>>
    /\ IsAssistantText(Last(f.replies))

C3_FinalAnswerHistory ==
    \A t \in Threads :
        LET f == frame[t]
        IN  FinalAnswer(f) =>
                /\ f.pc = "done"
                /\ f.ret = Last(f.replies).content
                /\ Len(f.replies) <= 5
                /\ TurnHistory(f, f.replies)
                /\ (f.before = <<SystemMsg>> /\ Len(f.replies) = 1)
                      => Len(conversations[f.session_id]) = 3

\* a three-round answer with a two-call round, on a session that existed
C3_Witness ==
    \E t \in Threads :
        /\ FinalAnswer(frame[t])
        /\ Len(frame[t].replies) = 3
        /\ Len(frame[t].before) > 1
        /\ \E i \in 1..2 : Len(frame[t].replies[i].tool_calls) = 2

(***************************************************************************)
(* C4: when the backend call of round r fails (connection, timeout,        *)
(* non-2xx) the call returns the classifier's text, nothing more is sent   *)
(* or dispatched, and the history is what it was before that call: the     *)
(* user message and rounds 1..r-1, no message for the failed round.        *)
(***************************************************************************)
FailureTexts ==
    {MsgConnection, MsgTimeout, MsgModelNotFound, MsgWrongEndpoint}
        \cup {MsgHTTP(st, b) : st \in HTTPStatuses, b \in Bodies}

BackendFailure(f) ==
    /\ Ended(f)
    /\ f.site = "backend"
    /\ f.exc.cls \in {"ConnectionError", "ConnectTimeout", "ReadTimeout", "HTTPError"}

C4_FailureAbortsTurn ==
    \A t \in Threads :
        LET f == frame[t]
        IN  BackendFailure(f) =>
                /\ f.pc = "done"
                /\ f.ret \in FailureTexts
                /\ f.tool_calls = <<>>
                /\ f.iter = Len(f.replies) + 1
                /\ conversations[f.session_id] = f.payload
                /\ TurnHistory(f, f.replies)

\* an HTTP error in the third round
C4_Witness ==
    \E t \in Threads :
        /\ BackendFailure(frame[t])
        /\ frame[t].exc.cls = "HTTPError"
        /\ frame[t].iter = 3

(***************************************************************************)
(* C5: get_response never raises for a backend or tool failure: whatever   *)
(* the backend and the tools do, the call ends by returning a text.        *)
(***************************************************************************)
C5_NeverRaises ==
    \A t \in Threads :
        /\ frame[t].pc # "raised"
        /\ frame[t].pc = "done" => frame[t].ret \notin {Missing, None}

(***************************************************************************)
(* C6: dispatching a tool name that is not registered appends a tool       *)
(* result carrying an error string and the round goes on, whether or not   *)
(* the logger is set.                                                      *)
(***************************************************************************)
DispatchGoesOn(t) ==
    LET f == frame[t]
        call == Head(f.tool_calls)
        h == conversations[f.session_id]
        h2 == conversations'[f.session_id]
    IN  /\ Len(h2) = Len(h) + 1
        /\ SubSeq(h2, 1, Len(h)) = h
        /\ Last(h2).role = "tool"
        /\ Last(h2).content \in ErrorStrings(call.name)
        /\ frame'[t].pc \in {"tools", "loop"}
        /\ frame'[t].tool_calls = Tail(f.tool_calls)

UnknownToolDispatch(t) ==
    /\ frame[t].pc = "tools"
    /\ frame[t].tool_calls # <<>>
    /\ Head(frame[t].tool_calls).shape = "ok"
    /\ Head(frame[t].tool_calls).name \notin DOMAIN tools
    /\ frame'[t] # frame[t]

C6_UnknownToolNotFatal ==
    [][\A t \in Threads : UnknownToolDispatch(t) => DispatchGoesOn(t)]_vars

(***************************************************************************)
(* C7: a registered tool callable that raises yields a tool result         *)
(* carrying an error string; nothing propagates and the round goes on,     *)
(* whether or not the logger is set.                                       *)
(***************************************************************************)
RaisingToolDispatch(t) ==
    /\ frame[t].pc = "tools"
    /\ frame[t].tool_calls # <<>>
    /\ Head(frame[t].tool_calls).shape = "ok"
    /\ Head(frame[t].tool_calls).name \in DOMAIN tools
    /\ tools[Head(frame[t].tool_calls).name].func = "f_raise"
    /\ frame'[t] # frame[t]

C7_RaisingToolNotFatal ==
    [][\A t \in Threads : RaisingToolDispatch(t) => DispatchGoesOn(t)]_vars

C9_AppendOnly ==
    [][\A s \in DOMAIN conversations :
          ~clear_conversation(s) => IsPrefix(conversations[s], conversations'[s])]_vars

(***************************************************************************)
(* C10: clear_conversation on a stored session leaves it with the system   *)
(* message alone and returns True; on an unknown session id it returns     *)
(* False, creates no session and changes no history.                       *)
(***************************************************************************)
C10_ClearFrame ==
    [][cleared' # Missing =>
          /\ DOMAIN conversations' = DOMAIN conversations
          /\ UNCHANGED <<tools, logger, frame>>
          /\ \E s \in Sessions :
                IF s \in DOMAIN conversations
                THEN /\ cleared' = "True"
                     /\ conversations'[s] = <<SystemMsg>>
                     /\ \A o \in DOMAIN conversations \ {s} :
                            conversations'[o] = conversations[o]
                ELSE /\ cleared' = "False"
                     /\ conversations' = conversations]_vars

\* an unknown session id was cleared while another session holds a conversation
C10_Witness ==
    /\ cleared = "False"
    /\ \E s \in DOMAIN conversations : Len(conversations[s]) > 1
    /\ DOMAIN conversations # Sessions

(***************************************************************************)
(* C11: turns are serialized per session id: while a turn on session s has *)
(* appended its user message and has not finished, no other get_response   *)
(* call on s changes the history of s or sends it to the backend, so the   *)
(* messages of a turn form one block and no backend call sees a message of *)
(* an unfinished turn.                                                     *)
(***************************************************************************)
MidTurn(u) == frame[u].pc \in {"loop", "wait", "tools"}

C11_TurnsSerialized ==
    [][\A t, u \in Threads :
          (/\ t # u
           /\ MidTurn(u)
           /\ frame[t].session_id = frame[u].session_id
           /\ frame'[t] # frame[t])
          => /\ conversations'[frame[u].session_id] = conversations[frame[u].session_id]
             /\ frame'[t].pc # "wait"]_vars

(***************************************************************************)
(* C12: the text returned for a failed backend call is determined by the   *)
(* failure kind: connection failure, timeout, HTTP 404, HTTP 405, other    *)
(* HTTP status (generic text with status and body); the five texts are     *)
(* pairwise distinct and none is the unexpected-error text.                *)
(***************************************************************************)
IsConnectionFailure(e) == "ConnectionError" \in Bases(e.cls)
IsTimeout(e) == "Timeout" \in Bases(e.cls)
IsHTTPError(e) == "HTTPError" \in Bases(e.cls)

FailedBackendCall(f) == Ended(f) /\ f.site = "backend"

HTTPTextsRight(f) ==
    /\ (IsHTTPError(f.exc) /\ f.exc.status = "404") => f.ret = MsgModelNotFound
    /\ (IsHTTPError(f.exc) /\ f.exc.status = "405") => f.ret = MsgWrongEndpoint
    /\ (IsHTTPError(f.exc) /\ f.exc.status \notin {"404", "405"})
          => f.ret = MsgHTTP(f.exc.status, f.exc.body)

TextsDistinct ==
    \A st \in HTTPStatuses, b \in Bodies :
        LET texts == <<MsgConnection, MsgTimeout, MsgModelNotFound,
                       MsgWrongEndpoint, MsgHTTP(st, b)>>
        IN  /\ \A i, j \in 1..5 : i # j => texts[i] # texts[j]
            /\ \A i \in 1..5 : texts[i] # MsgUnexpected

\* the claim as stated: every timeout yields the backend-too-slow text
C12_TimeoutAlwaysSlow ==
    \A t \in Threads :
        LET f == frame[t]
        IN  FailedBackendCall(f) =>
                /\ IsConnectionFailure(f.exc) => f.ret = MsgConnection
                /\ IsTimeout(f.exc) => f.ret = MsgTimeout
                /\ HTTPTextsRight(f)
                /\ TextsDistinct

\* the claim as amended: a connect timeout is a connection failure and
\* yields the cannot-reach-backend text; any other timeout the too-slow text
C12_ClassifiedText ==
    \A t \in Threads :
        LET f == frame[t]
        IN  FailedBackendCall(f) =>
                /\ f.pc = "done"
                /\ IsConnectionFailure(f.exc) => f.ret = MsgConnection
                /\ (IsTimeout(f.exc) /\ ~IsConnectionFailure(f.exc))
                      => f.ret = MsgTimeout
                /\ HTTPTextsRight(f)
                /\ TextsDistinct

\* a connect timeout in the second round was answered as a connection failure
C12_Witness ==
    \E t \in Threads :
        /\ FailedBackendCall(frame[t])
        /\ frame[t].exc.cls = "ConnectTimeout"
        /\ frame[t].iter = 2
        /\ frame[t].ret = MsgConnection

(***************************************************************************)
(* C13: a 2xx reply that cannot be decoded into the expected shape (one    *)
(* with no message object) is a protocol error: the turn ends with a       *)
(* dedicated message, which is none of the other texts and not the reply's *)
(* content; the reply is not accepted as a final answer and nothing of it  *)
(* is appended to the history.                                             *)
(***************************************************************************)
OtherTexts ==
    FailureTexts \cup {MsgLimit, MsgRequest, MsgUnexpected}

C13_ShapelessReplyRejected ==
    \A t \in Threads :
        LET f == frame[t]
        IN  (Ended(f) /\ f.replies # <<>> /\ Last(f.replies) = EmptyDict)
                => /\ f.exc # NoExc
                   /\ f.ret \notin OtherTexts \cup {"", Missing, None}
                   /\ conversations[f.session_id] = f.payload

(***************************************************************************)
(* C14: register_tool with a name already registered fails and leaves the  *)
(* registry unchanged: no step replaces or removes the entry of a name.    *)
(***************************************************************************)
C14_DuplicateRejected ==
    [][\A n \in DOMAIN tools : n \in DOMAIN tools' /\ tools'[n] = tools[n]]_vars

(***************************************************************************)
(* C15: get_visible_history(s) returns, in the original order, exactly the *)
(* user and assistant messages of s whose content is not blank once        *)
(* stripped: never a system message, a tool message, or an assistant       *)
(* message with empty or whitespace-only content.                          *)
(***************************************************************************)
Shown(m) == m.role \in {"user", "assistant"} /\ Strip(m.content) # ""

C15_VisibleHistory ==
    \A t \in Threads :
        frame[t].pc = "done" =>
            LET s == frame[t].session_id
                h == IF s \in DOMAIN conversations THEN conversations[s] ELSE <<>>
                v == frame[t].ret
                idx == {i \in 1..Len(h) : Shown(h[i])}
            IN  /\ Len(v) = Cardinality(idx)
                /\ \A i \in idx :
                      LET k == Cardinality({j \in idx : j <= i})
                      IN  v[k].role = h[i].role /\ v[k].content = h[i].content
                /\ \A k \in 1..Len(v) :
                      /\ v[k].role \notin {"system", "tool"}
                      /\ ~(v[k].role = "assistant" /\ v[k].content \in {"", " ", "  "})

\* a history with a tool message and blank assistant messages gave two messages
C15_Witness ==
    \E t \in Threads :
        /\ frame[t].pc = "done"
        /\ frame[t].session_id = "s1"
        /\ Len(frame[t].ret) = 2
        /\ frame[t].ret[1].role = "user"
        /\ frame[t].ret[2].content = " Use a battery "
        /\ \E i \in 1..Len(conversations["s1"]) :
              conversations["s1"][i] = Msg("assistant", " ", <<>>)

(***************************************************************************)
(* C16: every message stored in any history has one of the roles system,   *)
(* user, assistant, tool, whatever the backend replies.                    *)
(***************************************************************************)
Roles == {"system", "user", "assistant", "tool"}

C16_RolesClosed ==
    \A s \in DOMAIN conversations :
        \A i \in 1..Len(conversations[s]) : conversations[s][i].role \in Roles

(***************************************************************************)
(* C17: whenever no turn is in progress on a session, every assistant      *)
(* message of its history that carries k >= 1 tool calls is immediately    *)
(* followed by exactly k tool-result messages.                             *)
(***************************************************************************)
InProgress(s) ==
    \E t \in Threads :
        frame[t].session_id = s /\ frame[t].pc \in {"seed", "user", "loop", "wait", "tools"}

ToolRequestsAnswered(h) ==
    \A i \in 1..Len(h) :
        LET k == Len(h[i].tool_calls)
        IN  (h[i].role = "assistant" /\ k >= 1) =>
                /\ i + k <= Len(h)
                /\ \A j \in 1..k : h[i + j].role = "tool"
                /\ i + k + 1 <= Len(h) => h[i + k + 1].role # "tool"

C17_NoDanglingToolRequest ==
    \A s \in DOMAIN conversations :
        ~InProgress(s) => ToolRequestsAnswered(conversations[s])

(***************************************************************************)
(* C18: sessions are isolated: a step of get_response(_, s) or of          *)
(* clear_conversation(s) leaves the history of every other session as it   *)
(* was, and the messages sent to the backend in a turn on s are the        *)
(* current history of s.                                                   *)
(***************************************************************************)
OthersUnchanged(s) ==
    \A o \in DOMAIN conversations \ {s} :
        o \in DOMAIN conversations' /\ conversations'[o] = conversations[o]

C18_SessionsIsolated ==
    [][/\ \A t \in Threads :
            frame'[t] # frame[t] =>
                LET s == IF frame[t].pc = "idle" THEN frame'[t].session_id
                         ELSE frame[t].session_id
                IN  /\ OthersUnchanged(s)
                    /\ (frame[t].pc = "loop" /\ frame'[t].pc = "wait")
                          => /\ frame'[t].payload = conversations[s]
                             /\ conversations'[s] = conversations[s]
       /\ cleared' # Missing => \E s \in Sessions : OthersUnchanged(s)]_vars

\* a request of a later round on s1 is in flight while s2 holds a conversation
\* of its own
C18_Witness ==
    \E t \in Threads :
        /\ frame[t].pc = "wait"
        /\ frame[t].session_id = "s1"
        /\ frame[t].iter = 2
        /\ frame[t].payload = conversations["s1"]
        /\ "s2" \in DOMAIN conversations
        /\ Len(conversations["s2"]) > 1
        /\ conversations["s2"] # conversations["s1"]

(***************************************************************************)
(* C19: under any interleaving of get_response and clear_conversation on   *)
(* one session, a history with more than one message has a user message in *)
(* second position.                                                        *)
(***************************************************************************)
C19_UserSecond ==
    \A s \in DOMAIN conversations :
        Len(conversations[s]) > 1 => conversations[s][2].role = "user"

====
